---------------------------- MODULE Spec2Model ----------------------------
(***************************************************************************)
(* Model of swap-ly/identity, src/schema/user.rs: the IdentityProvider    *)
(* tag codec, RegistrationTimestamp, the borrowed User and OwnedUser       *)
(* records, the write-path encoder, the read-path decoder and the lookup  *)
(* statements.                                                             *)
(*                                                                         *)
(* Text (&str, String) is modelled as its UTF-8 byte sequence, a byte as  *)
(* a number in 0..255.  A run of the model performs either one codec or   *)
(* query-building call, or one pass new -> encode -> insert -> load ->    *)
(* decode -> borrow, as the module's tests do.                             *)
(***************************************************************************)
EXTENDS Integers, Sequences, FiniteSets, TLC

VARIABLES
    pc,         \* the call performed last
    tag,        \* the IdentityProvider handed to the encoder
    wire,       \* the text or bytes handed to the IdentityProvider decoder
    decoded,    \* the decoder's Result<IdentityProvider, IntoIdentityProviderError>
    given,      \* the DateTime<Utc> User::new converted (its argument, or Utc::now())
    user,       \* the borrowed User built by User::new
    calendar,   \* the value returned by User::registered_at
    values,     \* the QueryValues produced by the write-path encoder
    table,      \* identity.users: the row stored by the insert
    row,        \* the Row handed to OwnedUser::try_from
    loaded,     \* its Result<OwnedUser, ConvertRowToUserError>
    view,       \* User::from(&OwnedUser), or the panic it ends in
    query,      \* the UserQuery handed to to_query
    statement,  \* the statement text to_query returned
    compared    \* two RegistrationTimestamps and what == returned for them

vars == <<pc, tag, wire, decoded, given, user, calendar, values, table, row,
          loaded, view, query, statement, compared>>

---------------------------------------------------------------------------
(* Bounds of the model. *)

\* Calendar days before and after 1970-01-01 the registration times range over.
MaxDay == 1

\* Longest username handed to UserQuery::Nickname.
MaxNameLen == 2

---------------------------------------------------------------------------
(* Text and bytes. *)

\* The printable ASCII characters, in code order from 32 (space); the double
\* quote, the backslash and the backtick are written by name.
Ascii ==
    <<" ", "!", "dquote", "#", "$", "%", "&", "'", "(", ")", "*", "+", ",", "-",
      ".", "/", "0", "1", "2", "3", "4", "5", "6", "7", "8", "9", ":", ";",
      "<", "=", ">", "?", "@", "A", "B", "C", "D", "E", "F", "G", "H", "I",
      "J", "K", "L", "M", "N", "O", "P", "Q", "R", "S", "T", "U", "V", "W",
      "X", "Y", "Z", "[", "backslash", "]", "^", "_", "backtick", "a", "b", "c", "d", "e",
      "f", "g", "h", "i", "j", "k", "l", "m", "n", "o", "p", "q", "r", "s",
      "t", "u", "v", "w", "x", "y", "z", "{", "|", "}", "~">>

\* The byte of an ASCII character.
Byte(c) == 31 + CHOOSE i \in 1..Len(Ascii) : Ascii[i] = c

\* The UTF-8 bytes of a literal written as its characters.
Utf8(chars) == [i \in 1..Len(chars) |-> Byte(chars[i])]

Ok(v) == [ok |-> TRUE, value |-> v]

Err(e) == [ok |-> FALSE, error |-> e]

None == [kind |-> "none"]

\* Rust's integer division, which truncates toward zero.
Quot(a, b) == IF a >= 0 THEN a \div b ELSE -((-a) \div b)

\* Whether bytes[i..] is a sequence of well-formed UTF-8 encodings (RFC 3629),
\* the check std::str::from_utf8 performs.
RECURSIVE Utf8ValidFrom(_, _)
Utf8ValidFrom(bytes, i) ==
    LET n == Len(bytes)
        Cont(j) == j <= n /\ bytes[j] >= 128 /\ bytes[j] <= 191
        In(j, lo, hi) == j <= n /\ bytes[j] >= lo /\ bytes[j] <= hi
        b == bytes[i]
    IN  IF i > n THEN TRUE
        ELSE IF b < 128 THEN Utf8ValidFrom(bytes, i + 1)
        ELSE IF b >= 194 /\ b <= 223
            THEN Cont(i + 1) /\ Utf8ValidFrom(bytes, i + 2)
        ELSE IF b = 224
            THEN In(i + 1, 160, 191) /\ Cont(i + 2) /\ Utf8ValidFrom(bytes, i + 3)
        ELSE IF (b >= 225 /\ b <= 236) \/ b = 238 \/ b = 239
            THEN Cont(i + 1) /\ Cont(i + 2) /\ Utf8ValidFrom(bytes, i + 3)
        ELSE IF b = 237
            THEN In(i + 1, 128, 159) /\ Cont(i + 2) /\ Utf8ValidFrom(bytes, i + 3)
        ELSE IF b = 240
            THEN In(i + 1, 144, 191) /\ Cont(i + 2) /\ Cont(i + 3)
                 /\ Utf8ValidFrom(bytes, i + 4)
        ELSE IF b >= 241 /\ b <= 243
            THEN Cont(i + 1) /\ Cont(i + 2) /\ Cont(i + 3)
                 /\ Utf8ValidFrom(bytes, i + 4)
        ELSE IF b = 244
            THEN In(i + 1, 128, 143) /\ Cont(i + 2) /\ Cont(i + 3)
                 /\ Utf8ValidFrom(bytes, i + 4)
        ELSE FALSE

\* std::str::from_utf8: the same bytes as text, or a Utf8Error.
FromUtf8(bytes) ==
    IF Utf8ValidFrom(bytes, 1) THEN Ok(bytes) ELSE Err("Utf8Error")

---------------------------------------------------------------------------
(* IdentityProvider. *)

IdentityProvider ==
    {"Google", "GitHub", "Twitch", "Reddit", "Twitter", "Discord", "Facebook"}

\* impl From<IdentityProvider> for &str
ProviderToStr(id) ==
    CASE id = "Google"   -> Utf8(<<"g", "o", "o", "g", "l", "e">>)
      [] id = "GitHub"   -> Utf8(<<"g", "i", "t", "h", "u", "b">>)
      [] id = "Twitch"   -> Utf8(<<"t", "w", "i", "t", "c", "h">>)
      [] id = "Reddit"   -> Utf8(<<"r", "e", "d", "d", "i", "t">>)
      [] id = "Twitter"  -> Utf8(<<"t", "w", "i", "t", "t", "e", "r">>)
      [] id = "Discord"  -> Utf8(<<"d", "i", "s", "c", "o", "r", "d">>)
      [] id = "Facebook" -> Utf8(<<"f", "a", "c", "e", "b", "o", "o", "k">>)

\* A decoder whose catch-all arm falls back to a tag instead of failing.
ProviderTryFromStrDefaulting(s) ==
    IF s = Utf8(<<"g", "i", "t", "h", "u", "b">>) THEN Ok("GitHub")
    ELSE Ok("Google")

\* impl TryFrom<&str> for IdentityProvider: the match has no "reddit" arm.
ProviderTryFromStr(s) ==
    CASE s = Utf8(<<"g", "o", "o", "g", "l", "e">>)           -> Ok("Google")
      [] s = Utf8(<<"g", "i", "t", "h", "u", "b">>)           -> Ok("GitHub")
      [] s = Utf8(<<"t", "w", "i", "t", "c", "h">>)           -> Ok("Twitch")
      [] s = Utf8(<<"t", "w", "i", "t", "t", "e", "r">>)      -> Ok("Twitter")
      [] s = Utf8(<<"d", "i", "s", "c", "o", "r", "d">>)      -> Ok("Discord")
      [] s = Utf8(<<"f", "a", "c", "e", "b", "o", "o", "k">>) -> Ok("Facebook")
      [] OTHER -> Err("InvalidProvider")

\* impl TryFrom<&[u8]> for IdentityProvider
ProviderTryFromBytes(bytes) ==
    LET text == FromUtf8(bytes)
    IN  IF text.ok THEN ProviderTryFromStr(text.value) ELSE Err("Utf8Error")

\* Texts handed to the decoder: the wire strings, near misses and other text.
ProviderTexts ==
    {ProviderToStr(p) : p \in IdentityProvider}
    \cup {<<>>,
          Utf8(<<"G", "o", "o", "g", "l", "e">>),
          Utf8(<<"G", "O", "O", "G", "L", "E">>),
          Utf8(<<"g", "o", "o", "g", "l">>),
          Utf8(<<"g", "o", "o", "g", "l", "e", " ">>),
          Utf8(<<" ", "g", "o", "o", "g", "l", "e">>),
          Utf8(<<"g", "i", "t", "l", "a", "b">>),
          Utf8(<<"s", "w", "a", "p", "l", "y">>),
          Utf8(<<"t", "w", "i", "t", "t", "e">>),
          Utf8(<<"r", "e", "d", "d", "i", "t", "t">>),
          <<195, 169>>,
          <<226, 130, 172>>,
          <<240, 159, 146, 150>>}

\* Byte strings that are not UTF-8: a stray or missing continuation byte, an
\* overlong form, a surrogate, a code point past U+10FFFF.
MalformedUtf8 ==
    {<<255>>,
     <<103, 111, 246>>,
     <<195>>,
     <<195, 40>>,
     <<192, 128>>,
     <<224, 128, 128>>,
     <<237, 160, 128>>,
     <<244, 144, 128, 128>>,
     <<128>>,
     ProviderToStr("Google") \o <<255>>,
     <<226, 130>> \o ProviderToStr("GitHub")}

\* Byte strings handed to the decoder.
ProviderBytes == ProviderTexts \cup MalformedUtf8

---------------------------------------------------------------------------
(* Calendar time (chrono::DateTime<Utc>): a day count from 1970-01-01, the *)
(* second of the day and the nanoseconds since that second, which chrono   *)
(* lets reach 1_999_999_999 to write a leap second (23:59:60.5 is second   *)
(* 86399 with 1_500_000_000 nanoseconds).                                  *)

SecondsPerDay == 86400

NanosPerMilli == 1000000

NanosPerSecond == 1000000000

I32Max == 2147483647

\* Seconds of the day and nanoseconds the registration times are drawn from.
SampleSeconds == {0, 59, 86399}

SampleNanos ==
    {0, 1, 999999, 1000000, 1999999, 123456789, 999999999,
     1000000000, 1500000000, 1999999999}

\* A leap second is written on a second numbered 59 only.
DateTimes ==
    {t \in [days : (-MaxDay)..MaxDay, secs : SampleSeconds, frac : SampleNanos] :
        t.frac >= NanosPerSecond => t.secs % 60 = 59}

\* DateTime::timestamp
Timestamp(t) == t.days * SecondsPerDay + t.secs

\* DateTime::timestamp_subsec_nanos: exceeds 999_999_999 on a leap second.
TimestampSubsecNanos(t) == t.frac

\* u32 -> i32 by TryInto.
I32TryFrom(n) == IF n <= I32Max THEN Ok(n) ELSE Err("TryFromIntError")

\* NaiveDateTime::from_timestamp(sec, nsec as u32) wrapped by from_utc: a
\* negative nsec casts to at least 2^31 and is refused like any nsec of two
\* seconds or more, and so is a leap second off second 59: the call panics.
DateTimeFromTimestamp(sec, nsec) ==
    IF nsec < 0 \/ nsec >= 2 * NanosPerSecond
       \/ (nsec >= NanosPerSecond /\ (sec % SecondsPerDay) % 60 # 59)
    THEN [kind |-> "panic"]
    ELSE [kind |-> "datetime",
          days |-> sec \div SecondsPerDay,
          secs |-> sec % SecondsPerDay,
          frac |-> nsec]

---------------------------------------------------------------------------
(* RegistrationTimestamp. *)

\* #[derive(Default)]
RegistrationTimestampDefault == [sec |-> 0, nsec |-> 0]

\* A comparison at full precision.
RegistrationTimestampEqExact(a, b) == a.sec = b.sec /\ a.nsec = b.nsec

\* impl PartialEq for RegistrationTimestamp
RegistrationTimestampEq(a, b) ==
    a.sec = b.sec /\ Quot(a.nsec, NanosPerMilli) = Quot(b.nsec, NanosPerMilli)

\* impl From<Timespec> for RegistrationTimestamp
RegistrationTimestampFromTimespec(timestamp) ==
    [sec |-> timestamp.sec, nsec |-> timestamp.nsec]

\* impl From<&RegistrationTimestamp> for Timespec
TimespecFrom(timestamp) == [sec |-> timestamp.sec, nsec |-> timestamp.nsec]

\* impl From<&RegistrationTimestamp> for DateTime<Utc>
DateTimeFrom(timestamp) == DateTimeFromTimestamp(timestamp.sec, timestamp.nsec)

\* A conversion that keeps the milliseconds only.
RegistrationTimestampTryFromMillis(timestamp) ==
    Ok([sec  |-> Timestamp(timestamp),
        nsec |-> (TimestampSubsecNanos(timestamp) \div NanosPerMilli)
                 * NanosPerMilli])

\* impl TryFrom<DateTime<Utc>> for RegistrationTimestamp
RegistrationTimestampTryFrom(timestamp) ==
    LET nsec == I32TryFrom(TimestampSubsecNanos(timestamp))
    IN  IF nsec.ok
        THEN Ok([sec |-> Timestamp(timestamp), nsec |-> nsec.value])
        ELSE Err(nsec.error)

---------------------------------------------------------------------------
(* User, the borrowed record. *)

HashLen == 32

\* A Uuid is its 16 bytes.
UuidA == [i \in 1..16 |-> 0]

UuidB == <<103, 229, 80, 68, 16, 177, 66, 111, 146, 71, 187, 104, 14, 95, 224, 200>>

\* Uuid::new_v4() draws from these.
GeneratedUuids == {UuidB}

\* Utc::now() draws from these.
NowTimes == {[days |-> MaxDay, secs |-> 59, frac |-> 123456789]}

Usernames == {Utf8(<<"t", "e", "s", "t">>), Utf8(<<"o", "'", "b">>)}

Emails == {Utf8(<<"t", "e", "s", "t", "@", "t", "e", "s", "t", ".", "c", "o", "m">>)}

\* 32-byte password hashes: all zero, all 255, leading zeros, mixed.
PasswordHashes ==
    {[i \in 1..HashLen |-> 0],
     [i \in 1..HashLen |-> 255],
     [i \in 1..HashLen |-> IF i <= 2 THEN 0 ELSE (i * 37 + 11) % 256],
     [i \in 1..HashLen |-> (i * 149 + 201) % 256]}

\* Option<_>::unwrap_or_default on the conversion's result.
UnwrapOrDefault(r) == IF r.ok THEN r.value ELSE RegistrationTimestampDefault

\* User::new, with the id and the time it draws when the argument is None.
UserNew(id, username, email, password_hash, registered_at, new_v4, now) ==
    [kind          |-> "user",
     id            |-> IF id.kind = "some" THEN id.value ELSE new_v4,
     username      |-> username,
     email         |-> email,
     password_hash |-> password_hash,
     registered_at |->
        IF registered_at.kind = "some"
        THEN UnwrapOrDefault(RegistrationTimestampTryFrom(registered_at.value))
        ELSE UnwrapOrDefault(RegistrationTimestampTryFrom(now))]

Some(v) == [kind |-> "some", value |-> v]

\* User::registered_at
UserRegisteredAt(u) ==
    DateTimeFromTimestamp(u.registered_at.sec, u.registered_at.nsec)

\* impl PartialEq<OwnedUser> for User
UserEqOwned(u, other) ==
    /\ u.id = other.id
    /\ u.username = other.username
    /\ u.email = other.email
    /\ u.password_hash = other.password_hash
    /\ RegistrationTimestampEq(u.registered_at, other.registered_at)

\* impl PartialEq<User> for OwnedUser
OwnedUserEq(o, other) ==
    /\ o.id = other.id
    /\ o.username = other.username
    /\ o.email = other.email
    /\ o.password_hash = other.password_hash
    /\ RegistrationTimestampEq(o.registered_at, other.registered_at)
---------------------------------------------------------------------------
(* Base 58 (bs58, Bitcoin alphabet), computed digit by digit as the crate  *)
(* does: a little-endian number in the target base, multiplied by the      *)
(* source base and increased by each input digit in turn.                  *)

Base58Alphabet ==
    Utf8(<<"1", "2", "3", "4", "5", "6", "7", "8", "9", "A", "B", "C", "D", "E",
           "F", "G", "H", "J", "K", "L", "M", "N", "P", "Q", "R", "S", "T", "U",
           "V", "W", "X", "Y", "Z", "a", "b", "c", "d", "e", "f", "g", "h", "i",
           "j", "k", "m", "n", "o", "p", "q", "r", "s", "t", "u", "v", "w", "x",
           "y", "z">>)

Reverse(s) == [i \in 1..Len(s) |-> s[Len(s) + 1 - i]]

\* while carry > 0 { push(carry % base); carry /= base }
RECURSIVE PushCarry(_, _)
PushCarry(carry, base) ==
    IF carry = 0 THEN <<>>
    ELSE <<carry % base>> \o PushCarry(carry \div base, base)

\* for byte in &mut output[..index] { carry += byte * mul; byte = carry % base;
\* carry /= base }, then the carry's own digits.
RECURSIVE MulAdd(_, _, _, _, _)
MulAdd(output, i, carry, mul, base) ==
    IF i > Len(output) THEN PushCarry(carry, base)
    ELSE LET c == carry + output[i] * mul
         IN  <<c % base>> \o MulAdd(output, i + 1, c \div base, mul, base)

\* The loop over the input digits.
RECURSIVE Rebase(_, _, _, _, _)
Rebase(input, i, output, mul, base) ==
    IF i > Len(input) THEN output
    ELSE Rebase(input, i + 1, MulAdd(output, 1, input[i], mul, base), mul, base)

\* input.iter().take_while(|v| v == zero).count()
RECURSIVE LeadingCount(_, _, _)
LeadingCount(input, i, zero) ==
    IF i > Len(input) \/ input[i] # zero THEN 0
    ELSE 1 + LeadingCount(input, i + 1, zero)

\* bs58::encode(bytes).into_string()
Base58Encode(bytes) ==
    LET digits == Rebase(bytes, 1, <<>>, 256, 58)
        zeros  == [i \in 1..LeadingCount(bytes, 1, 0) |-> 0]
        all    == Reverse(digits \o zeros)
    IN  [i \in 1..Len(all) |-> Base58Alphabet[all[i] + 1]]

\* bs58::decode(text).into_vec(): the first character outside the alphabet
\* ends it in an error.
Base58Decode(text) ==
    LET Bad(i) == \A d \in 1..58 : Base58Alphabet[d] # text[i]
        Digit(i) == (CHOOSE d \in 1..58 : Base58Alphabet[d] = text[i]) - 1
    IN  IF \E i \in 1..Len(text) : Bad(i)
        THEN LET first == CHOOSE i \in 1..Len(text) :
                              Bad(i) /\ \A j \in 1..(i - 1) : ~Bad(j)
             IN  Err([kind |-> "DecodingError",
                      cause |-> IF text[first] > 127 THEN "NonAsciiCharacter"
                                ELSE "InvalidCharacter",
                      index |-> first - 1])
        ELSE LET digits == [i \in 1..Len(text) |-> Digit(i)]
                 bytes  == Rebase(digits, 1, <<>>, 58, 256)
                 zeros  == [i \in 1..LeadingCount(text, 1, Base58Alphabet[1]) |-> 0]
             IN  Ok(Reverse(bytes \o zeros))

---------------------------------------------------------------------------
(* The write path: QueryValues, an ordered list of named, typed values.    *)

Uuid(v) == [type |-> "uuid", v |-> v]

Text(v) == [type |-> "text", v |-> v]

\* A timestamp value holds a count of milliseconds since the epoch.
Millis(ms) == [type |-> "timestamp", v |-> <<ms>>]

Null == [type |-> "null", v |-> <<>>]

\* Timespec -> Value (cdrs): sec * 1_000 + nsec / 1_000_000.
TimespecToValue(timestamp) ==
    Millis(timestamp.sec * 1000 + Quot(timestamp.nsec, NanosPerMilli))

\* An encoder that hands the e-mail to the username column and the username
\* to the e-mail column.
UserTryIntoSwapped(u) ==
    Ok(<< <<"id", Uuid(u.id)>>,
          <<"username", Text(u.email)>>,
          <<"email", Text(u.username)>>,
          <<"password_hash", Text(Base58Encode(u.password_hash))>>,
          <<"registered_at", TimespecToValue(TimespecFrom(u.registered_at))>> >>)

\* impl Serializable<QueryValues> for User: try_into
UserTryInto(u) ==
    Ok(<< <<"id", Uuid(u.id)>>,
          <<"username", Text(u.username)>>,
          <<"email", Text(u.email)>>,
          <<"password_hash", Text(Base58Encode(u.password_hash))>>,
          <<"registered_at", TimespecToValue(TimespecFrom(u.registered_at))>> >>)

\* impl TryFrom<User> for QueryValues
QueryValuesTryFrom(u) ==
    Ok(<< <<"id", Uuid(u.id)>>,
          <<"username", Text(u.username)>>,
          <<"email", Text(u.email)>>,
          <<"password_hash", Text(Base58Encode(u.password_hash))>>,
          <<"registered_at", TimespecToValue(TimespecFrom(u.registered_at))>> >>)

\* INSERTION_QUERY: the columns named before VALUES, one placeholder each.
InsertionColumns == <<"id", "username", "email", "password_hash", "registered_at">>

\* CREATE TABLE identity.users: each column's type.
TableColumns ==
    [id |-> "uuid", username |-> "text", email |-> "text",
     password_hash |-> "text", registered_at |-> "timestamp"]

\* The session's execution of INSERTION_QUERY with the values: each
\* placeholder takes the value named like its column, and the row is stored
\* if every value has its column's type.
ExecuteInsert(vals) ==
    LET Named(c) == {i \in 1..Len(vals) : vals[i][1] = c}
    IN  IF /\ Len(vals) = Len(InsertionColumns)
           /\ \A k \in 1..Len(InsertionColumns) :
                /\ Cardinality(Named(InsertionColumns[k])) = 1
                /\ \A i \in Named(InsertionColumns[k]) :
                      vals[i][2].type = TableColumns[InsertionColumns[k]]
        THEN Ok([c \in DOMAIN TableColumns |->
                    vals[CHOOSE i \in 1..Len(vals) : vals[i][1] = c][2]])
        ELSE Err("QueryError")
---------------------------------------------------------------------------
(* The read path: a Row maps the names of the columns it holds to values. *)

CDRSError(column) == [kind |-> "CDRSError", column |-> column]

\* IntoRustByName::get_r_by_name: the column must be there, set, and of the
\* type asked for.
GetRByName(value, name, type) ==
    IF name \notin DOMAIN value THEN Err(CDRSError(name))
    ELSE IF value[name].type # type THEN Err(CDRSError(name))
    ELSE Ok(value[name].v)

\* The Timespec of a timestamp column: whole seconds and the milliseconds
\* left, as nanoseconds.
TimespecOfMillis(v) ==
    [sec |-> v[1] \div 1000, nsec |-> (v[1] % 1000) * NanosPerMilli]

\* A decoder that reads a username it cannot get as the empty string.
OwnedUserTryFromDefaulting(value) ==
    LET id       == GetRByName(value, "id", "uuid")
        username == GetRByName(value, "username", "text")
        email    == GetRByName(value, "email", "text")
        text     == GetRByName(value, "password_hash", "text")
        hash     == Base58Decode(text.value)
        time     == GetRByName(value, "registered_at", "timestamp")
    IN  IF ~id.ok THEN Err(id.error)
        ELSE IF ~email.ok THEN Err(email.error)
        ELSE IF ~text.ok THEN Err(text.error)
        ELSE IF ~hash.ok THEN Err(hash.error)
        ELSE IF ~time.ok THEN Err(time.error)
        ELSE Ok([kind          |-> "owned",
                 id            |-> id.value,
                 username      |-> IF username.ok THEN username.value ELSE <<>>,
                 email         |-> email.value,
                 password_hash |-> hash.value,
                 registered_at |->
                    RegistrationTimestampFromTimespec(TimespecOfMillis(time.value))])

\* A decoder that takes a password_hash it cannot decode as 32 zero bytes.
OwnedUserTryFromZeroFilling(value) ==
    LET id       == GetRByName(value, "id", "uuid")
        username == GetRByName(value, "username", "text")
        email    == GetRByName(value, "email", "text")
        text     == GetRByName(value, "password_hash", "text")
        hash     == Base58Decode(text.value)
        time     == GetRByName(value, "registered_at", "timestamp")
    IN  IF ~id.ok THEN Err(id.error)
        ELSE IF ~username.ok THEN Err(username.error)
        ELSE IF ~email.ok THEN Err(email.error)
        ELSE IF ~text.ok THEN Err(text.error)
        ELSE IF ~time.ok THEN Err(time.error)
        ELSE Ok([kind          |-> "owned",
                 id            |-> id.value,
                 username      |-> username.value,
                 email         |-> email.value,
                 password_hash |-> IF hash.ok THEN hash.value
                                   ELSE [i \in 1..HashLen |-> 0],
                 registered_at |->
                    RegistrationTimestampFromTimespec(TimespecOfMillis(time.value))])

\* impl Deserializable<OwnedUser, Row> for OwnedUser: try_from.  Each `?`
\* returns the first failure.
OwnedUserTryFrom(value) ==
    LET id       == GetRByName(value, "id", "uuid")
        username == GetRByName(value, "username", "text")
        email    == GetRByName(value, "email", "text")
        text     == GetRByName(value, "password_hash", "text")
        hash     == Base58Decode(text.value)
        time     == GetRByName(value, "registered_at", "timestamp")
    IN  IF ~id.ok THEN Err(id.error)
        ELSE IF ~username.ok THEN Err(username.error)
        ELSE IF ~email.ok THEN Err(email.error)
        ELSE IF ~text.ok THEN Err(text.error)
        ELSE IF ~hash.ok THEN Err(hash.error)
        ELSE IF ~time.ok THEN Err(time.error)
        ELSE Ok([kind          |-> "owned",
                 id            |-> id.value,
                 username      |-> username.value,
                 email         |-> email.value,
                 password_hash |-> hash.value,
                 registered_at |->
                    RegistrationTimestampFromTimespec(TimespecOfMillis(time.value))])

\* impl From<&OwnedUser> for User: array_ref![slice, 0, 32] takes the first
\* 32 bytes and panics on a shorter slice.
UserFromOwned(u) ==
    IF Len(u.password_hash) < HashLen THEN [kind |-> "panic"]
    ELSE [kind          |-> "user",
          id            |-> u.id,
          username      |-> u.username,
          email         |-> u.email,
          password_hash |-> SubSeq(u.password_hash, 1, HashLen),
          registered_at |-> u.registered_at]

\* A row as the insert of a well-formed user stores it.
GoodRow ==
    [id            |-> Uuid(UuidB),
     username      |-> Text(Utf8(<<"t", "e", "s", "t">>)),
     email         |-> Text(Utf8(<<"t", "@", "t">>)),
     password_hash |-> Text(Base58Encode([i \in 1..HashLen |-> (i * 7) % 256])),
     registered_at |-> Millis(86399123)]

\* A value of another type than the column's.
Mistyped(c) == IF TableColumns[c] = "text" THEN Millis(0) ELSE Text(<<>>)

\* password_hash texts written by other writers: base 58 of 0, 1, 31 and 33
\* bytes, and texts outside the alphabet.
ForeignHashTexts ==
    {Base58Encode([i \in 1..n |-> (i * 7) % 256]) : n \in {0, 1, HashLen - 1, HashLen + 1}}
    \cup {Utf8(<<"0">>), Utf8(<<"a", "b", "l">>), Utf8(<<"2", "g", " ">>), <<50, 195, 169>>}

\* A row whose password_hash text is outside the base-58 alphabet.
BadHashRow == [GoodRow EXCEPT !.password_hash = Text(Utf8(<<"a", "b", "l">>))]

OtherColumns == DOMAIN GoodRow \ {"password_hash"}

\* Rows handed to the decoder that this module's encoder did not write: one
\* column absent, unset or mistyped, a foreign password_hash text, or both.
ForeignRows ==
    {GoodRow}
    \cup {[c \in DOMAIN GoodRow \ {x} |-> GoodRow[c]] : x \in DOMAIN GoodRow}
    \cup {[GoodRow EXCEPT ![x] = Null] : x \in DOMAIN GoodRow}
    \cup {[GoodRow EXCEPT ![x] = Mistyped(x)] : x \in DOMAIN GoodRow}
    \cup {[GoodRow EXCEPT !.password_hash = Text(t)] : t \in ForeignHashTexts}
    \cup {[c \in DOMAIN BadHashRow \ {x} |-> BadHashRow[c]] : x \in OtherColumns}
    \cup {[BadHashRow EXCEPT ![x] = Null] : x \in OtherColumns}
    \cup {[BadHashRow EXCEPT ![x] = Mistyped(x)] : x \in OtherColumns}

---------------------------------------------------------------------------
(* UserQuery. *)

HexDigits ==
    Utf8(<<"0", "1", "2", "3", "4", "5", "6", "7", "8", "9", "a", "b", "c", "d",
           "e", "f">>)

\* Display for Uuid: lower-case hexadecimal in groups of 8-4-4-4-12.
RECURSIVE FormatUuidFrom(_, _)
FormatUuidFrom(id, i) ==
    IF i > Len(id) THEN <<>>
    ELSE <<HexDigits[id[i] \div 16 + 1], HexDigits[(id[i] % 16) + 1]>>
         \o (IF i \in {4, 6, 8, 10} THEN Utf8(<<"-">>) ELSE <<>>)
         \o FormatUuidFrom(id, i + 1)

FormatUuid(id) == FormatUuidFrom(id, 1)

QueryById(id) == [kind |-> "Id", value |-> id]

QueryByNickname(nick) == [kind |-> "Nickname", value |-> nick]

SelectById ==
    Utf8(<<"S", "E", "L", "E", "C", "T", " ", "*", " ", "F", "R", "O", "M", " ",
           "i", "d", "e", "n", "t", "i", "t", "y", ".", "u", "s", "e", "r", "s",
           " ", "W", "H", "E", "R", "E", " ", "i", "d", " ", "=", " ">>)

SelectByUsername ==
    Utf8(<<"S", "E", "L", "E", "C", "T", " ", "*", " ", "F", "R", "O", "M", " ",
           "i", "d", "e", "n", "t", "i", "t", "y", ".", "u", "s", "e", "r", "s",
           " ", "W", "H", "E", "R", "E", " ", "u", "s", "e", "r", "n", "a", "m",
           "e", " ", "=", " ", "'">>)

\* impl Queryable for UserQuery: to_query formats the value into the text.
ToQuery(q) ==
    IF q.kind = "Id"
    THEN SelectById \o FormatUuid(q.value) \o Utf8(<<";">>)
    ELSE SelectByUsername \o q.value \o Utf8(<<"'", ";">>)

\* Usernames handed to UserQuery::Nickname: every text of at most
\* MaxNameLen characters among a letter, the single quote and the semicolon.
Nicknames ==
    UNION {[1..n -> {Byte("a"), Byte("'"), Byte(";")}] : n \in 0..MaxNameLen}

Queries ==
    {QueryById(id) : id \in {UuidA, UuidB}}
    \cup {QueryByNickname(nick) : nick \in Nicknames \cup Usernames}

---------------------------------------------------------------------------
(* The calls. *)

Init ==
    /\ pc = "start"
    /\ tag = "none"
    /\ wire = <<>>
    /\ decoded = None
    /\ given = None
    /\ user = None
    /\ calendar = None
    /\ values = <<>>
    /\ table = None
    /\ row = None
    /\ loaded = None
    /\ view = None
    /\ query = None
    /\ statement = <<>>
    /\ compared = None

\* <&str as From<IdentityProvider>>::from(p)
EncodeProvider(p) ==
    /\ pc = "start"
    /\ tag' = p
    /\ wire' = ProviderToStr(p)
    /\ pc' = "encoded"
    /\ UNCHANGED <<decoded, given, user, calendar, values, table, row, loaded,
                   view, query, statement, compared>>

\* IdentityProvider::try_from on the encoder's output
DecodeWire ==
    /\ pc = "encoded"
    /\ decoded' = ProviderTryFromStr(wire)
    /\ pc' = "decoded_wire"
    /\ UNCHANGED <<tag, wire, given, user, calendar, values, table, row, loaded,
                   view, query, statement, compared>>

\* IdentityProvider::try_from(s: &str)
DecodeStr(s) ==
    /\ pc = "start"
    /\ wire' = s
    /\ decoded' = ProviderTryFromStr(s)
    /\ pc' = "decoded_str"
    /\ UNCHANGED <<tag, given, user, calendar, values, table, row, loaded,
                   view, query, statement, compared>>

\* IdentityProvider::try_from(bytes: &[u8])
DecodeBytes(bytes) ==
    /\ pc = "start"
    /\ wire' = bytes
    /\ decoded' = ProviderTryFromBytes(bytes)
    /\ pc' = "decoded_bytes"
    /\ UNCHANGED <<tag, given, user, calendar, values, table, row, loaded,
                   view, query, statement, compared>>

\* User::new(id, username, email, password_hash, registered_at)
NewUser(id, username, email, password_hash, registered_at, new_v4, now) ==
    /\ pc = "start"
    /\ given' = IF registered_at.kind = "some" THEN registered_at.value ELSE now
    /\ user' = UserNew(id, username, email, password_hash, registered_at, new_v4, now)
    /\ pc' = "new"
    /\ UNCHANGED <<tag, wire, decoded, calendar, values, table, row, loaded,
                   view, query, statement, compared>>

\* user.registered_at()
ReadRegisteredAt ==
    /\ pc = "new"
    /\ calendar' = UserRegisteredAt(user)
    /\ pc' = "read"
    /\ UNCHANGED <<tag, wire, decoded, given, user, values, table, row, loaded,
                   view, query, statement, compared>>

\* Serializable::try_into(&user)
Serialize ==
    /\ pc = "new"
    /\ values' = UserTryInto(user).value
    /\ pc' = "serialized"
    /\ UNCHANGED <<tag, wire, decoded, given, user, calendar, table, row, loaded,
                   view, query, statement, compared>>

\* QueryValues::try_from(user)
Convert ==
    /\ pc = "new"
    /\ values' = QueryValuesTryFrom(user).value
    /\ pc' = "serialized"
    /\ UNCHANGED <<tag, wire, decoded, given, user, calendar, row, table, loaded,
                   view, query, statement, compared>>

\* The insert of the values into identity.users.
Insert ==
    /\ pc = "serialized"
    /\ LET stored == ExecuteInsert(values)
       IN  IF stored.ok
           THEN table' = stored.value /\ pc' = "inserted"
           ELSE table' = table /\ pc' = "insert_failed"
    /\ UNCHANGED <<tag, wire, decoded, given, user, calendar, values, row, loaded,
                   view, query, statement, compared>>

\* load_record(&UserQuery::Id(u.id())): the statement is built and the stored
\* row comes back.
Load ==
    /\ pc = "inserted"
    /\ query' = QueryById(user.id)
    /\ statement' = ToQuery(QueryById(user.id))
    /\ row' = table
    /\ pc' = "fetched"
    /\ UNCHANGED <<tag, wire, decoded, given, user, calendar, values, table,
                   loaded, view, compared>>

\* A row of identity.users that another writer stored comes back.
FetchForeign(r) ==
    /\ pc = "start"
    /\ row' = r
    /\ pc' = "fetched"
    /\ UNCHANGED <<tag, wire, decoded, given, user, calendar, values, table,
                   loaded, view, query, statement, compared>>

\* OwnedUser::try_from(row)
Deserialize ==
    /\ pc = "fetched"
    /\ loaded' = OwnedUserTryFrom(row)
    /\ pc' = "deserialized"
    /\ UNCHANGED <<tag, wire, decoded, given, user, calendar, values, table, row,
                   view, query, statement, compared>>

\* User::from(&owned)
Borrow ==
    /\ pc = "deserialized"
    /\ loaded.ok
    /\ view' = UserFromOwned(loaded.value)
    /\ pc' = "borrowed"
    /\ UNCHANGED <<tag, wire, decoded, given, user, calendar, values, table, row,
                   loaded, query, statement, compared>>

\* query.to_query(&session)
BuildQuery(q) ==
    /\ pc = "start"
    /\ query' = q
    /\ statement' = ToQuery(q)
    /\ pc' = "queried"
    /\ UNCHANGED <<tag, wire, decoded, given, user, calendar, values, table, row,
                   loaded, view, compared>>

\* a == b and b == a, for the timestamp a of a calendar time (the write path)
\* and the timestamp b of another, as converted or as it comes back from a
\* timestamp column (the read path).
CompareTimestamps(t, u, stored) ==
    LET a == RegistrationTimestampTryFrom(t).value
        w == RegistrationTimestampTryFrom(u).value
        b == IF stored
             THEN RegistrationTimestampFromTimespec(
                      TimespecOfMillis(TimespecToValue(TimespecFrom(w)).v))
             ELSE w
    IN  /\ pc = "start"
        /\ compared' = [kind     |-> "compared",
                        left     |-> a,
                        right    |-> b,
                        forward  |-> RegistrationTimestampEq(a, b),
                        backward |-> RegistrationTimestampEq(b, a)]
        /\ pc' = "compared"
        /\ UNCHANGED <<tag, wire, decoded, given, user, calendar, values, table,
                       row, loaded, view, query, statement>>

Next ==
    \/ \E p \in IdentityProvider : EncodeProvider(p)
    \/ DecodeWire
    \/ \E s \in ProviderTexts : DecodeStr(s)
    \/ \E bytes \in ProviderBytes : DecodeBytes(bytes)
    \/ \E id \in {None, Some(UuidA)}, username \in Usernames, email \in Emails,
          password_hash \in PasswordHashes,
          registered_at \in {None} \cup {Some(t) : t \in DateTimes},
          new_v4 \in GeneratedUuids, now \in NowTimes :
            NewUser(id, username, email, password_hash, registered_at, new_v4, now)
    \/ ReadRegisteredAt
    \/ Serialize
    \/ Convert
    \/ Insert
    \/ Load
    \/ \E r \in ForeignRows : FetchForeign(r)
    \/ Deserialize
    \/ Borrow
    \/ \E q \in Queries : BuildQuery(q)
    \/ \E t \in DateTimes :
          \E u \in {x \in DateTimes : x.days = t.days}, stored \in BOOLEAN :
            CompareTimestamps(t, u, stored)

Spec == Init /\ [][Next]_vars
---------------------------------------------------------------------------
(* Properties. *)

\* The seven wire strings, as the encoder writes them.
WireStrings == {ProviderToStr(p) : p \in IdentityProvider}

\* C1: decoding the wire string the encoder produced for a tag succeeds and
\* returns that tag, for every IdentityProvider tag.
C1_TagRoundTrip ==
    pc = "decoded_wire" => (decoded.ok /\ decoded.value = tag)

\* C2: a User built by User::new, encoded, stored, fetched and decoded comes
\* back as an OwnedUser that compares equal to it.
C2_RecordRoundTrip ==
    (pc = "deserialized" /\ user.kind = "user")
        => (loaded.ok /\ OwnedUserEq(loaded.value, user))

\* C3: a decoded record's password_hash is exactly 32 bytes, the bytes whose
\* base-58 text the column holds, and the borrowed view keeps them all.
C3_HashIsThirtyTwoBytes ==
    (pc \in {"deserialized", "borrowed"} /\ loaded.ok)
        => /\ Len(loaded.value.password_hash) = HashLen
           /\ Base58Encode(loaded.value.password_hash) = row.password_hash.v
           /\ pc = "borrowed"
                => /\ view.kind = "user"
                   /\ view.password_hash = loaded.value.password_hash

Quote == Byte("'")

\* In the skeleton of a statement, the marks of a string literal, of one
\* left open, and of a UUID constant: numbers that are no byte.
Mark == [literal |-> 256, unterminated |-> 257, uuid |-> 258]

\* Whether a UUID constant (8-4-4-4-12 lower-case hexadecimal) starts at i.
IsUuidAt(text, i) ==
    /\ i + 35 <= Len(text)
    /\ \A k \in 0..35 :
         IF k \in {8, 13, 18, 23} THEN text[i + k] = Byte("-")
         ELSE \E d \in 1..16 : HexDigits[d] = text[i + k]

\* The statement as the database reads it, each string literal ('' inside
\* one is a quote) and each UUID constant replaced by a mark.
RECURSIVE SkeletonFrom(_, _, _)
SkeletonFrom(text, i, inLiteral) ==
    IF i > Len(text) THEN (IF inLiteral THEN <<Mark.unterminated>> ELSE <<>>)
    ELSE IF inLiteral
    THEN IF text[i] # Quote THEN SkeletonFrom(text, i + 1, TRUE)
         ELSE IF i < Len(text) /\ text[i + 1] = Quote
              THEN SkeletonFrom(text, i + 2, TRUE)
              ELSE <<Mark.literal>> \o SkeletonFrom(text, i + 1, FALSE)
    ELSE IF text[i] = Quote THEN SkeletonFrom(text, i + 1, TRUE)
    ELSE IF IsUuidAt(text, i) THEN <<Mark.uuid>> \o SkeletonFrom(text, i + 36, FALSE)
    ELSE <<text[i]>> \o SkeletonFrom(text, i + 1, FALSE)

Skeleton(text) == SkeletonFrom(text, 1, FALSE)

\* C4: the statement to_query builds has the same structure whatever the id
\* or the username is: the value is one constant of the statement.
C4_StatementStructureFixed ==
    query.kind \in {"Id", "Nickname"}
        => Skeleton(statement) =
             IF query.kind = "Id"
             THEN SelectById \o <<Mark.uuid>> \o Utf8(<<";">>)
             ELSE SubSeq(SelectByUsername, 1, Len(SelectByUsername) - 1)
                  \o <<Mark.literal>> \o Utf8(<<";">>)

NanosInRange(timestamp) == timestamp.nsec >= 0 /\ timestamp.nsec < NanosPerSecond

\* C5: every RegistrationTimestamp built, from a DateTime, a Timespec or by
\* Default, has its nanoseconds in [0, 1_000_000_000).
C5_NanosecondsInRange ==
    /\ user.kind = "user" => NanosInRange(user.registered_at)
    /\ (loaded # None /\ loaded.ok) => NanosInRange(loaded.value.registered_at)
    /\ compared.kind = "compared"
         => NanosInRange(compared.left) /\ NanosInRange(compared.right)
    /\ NanosInRange(RegistrationTimestampDefault)

\* The millisecond a nanosecond count falls in.
MillisecondOf(nsec) == nsec \div NanosPerMilli

\* C6: two timestamps with the same seconds whose nanoseconds fall in the
\* same millisecond compare equal, in both argument orders.
C6_SameMillisecondEqual ==
    (/\ pc = "compared"
     /\ compared.left.sec = compared.right.sec
     /\ MillisecondOf(compared.left.nsec) = MillisecondOf(compared.right.nsec))
        => (compared.forward /\ compared.backward)

C6_Witness ==
    /\ pc = "compared"
    /\ compared.left.sec = compared.right.sec
    /\ MillisecondOf(compared.left.nsec) = MillisecondOf(compared.right.nsec)
    /\ compared.left.nsec # compared.right.nsec
    /\ compared.forward
    /\ compared.backward

SameDateTime(d, t) ==
    d.kind = "datetime" /\ d.days = t.days /\ d.secs = t.secs /\ d.frac = t.frac

\* C7: a calendar time converted to a RegistrationTimestamp and back is the
\* same calendar time to the nanosecond, and User::new(.., Some(t))
\* .registered_at() returns t.
C7_CalendarRoundTrip ==
    /\ user.kind = "user" => SameDateTime(DateTimeFrom(user.registered_at), given)
    /\ pc = "read" => SameDateTime(calendar, given)

C7_Witness ==
    /\ pc = "read"
    /\ given.days < 0
    /\ given.frac % NanosPerMilli # 0
    /\ SameDateTime(calendar, given)

\* C8: the encoder produces one value for each of the five columns of
\* identity.users, the i-th named like the i-th column of the insert
\* statement, and each value is the user's field of that name.
C8_ValuesMatchColumns ==
    pc = "serialized"
        => /\ Len(values) = Len(InsertionColumns)
           /\ \A i \in 1..Len(values) : values[i][1] = InsertionColumns[i]
           /\ {values[i][1] : i \in 1..Len(values)} = DOMAIN TableColumns
           /\ Cardinality(DOMAIN TableColumns) = Len(InsertionColumns)
           /\ \A i \in 1..Len(values) :
                values[i][2].type = TableColumns[values[i][1]]
           /\ values[1][2].v = user.id
           /\ values[2][2].v = user.username
           /\ values[3][2].v = user.email
           /\ Base58Decode(values[4][2].v) = Ok(user.password_hash)
           /\ values[5][2].v[1] \div 1000 = user.registered_at.sec
                + user.registered_at.nsec \div NanosPerSecond

C8_Witness ==
    /\ pc = "serialized"
    /\ user.username # user.email
    /\ values[2] = <<"username", Text(user.username)>>
    /\ values[3] = <<"email", Text(user.email)>>
    /\ values[5][1] = "registered_at"
    /\ user.registered_at.nsec % NanosPerMilli # 0

\* C9: the decoder returns a tag for a wire string only: other text fails
\* with InvalidProvider and bytes that are not UTF-8 with Utf8Error.
C9_UnknownInputRejected ==
    pc \in {"decoded_str", "decoded_bytes"}
        => /\ decoded.ok => wire \in WireStrings
           /\ (wire \in ProviderTexts \ WireStrings)
                => (~decoded.ok /\ decoded.error = "InvalidProvider")
           /\ (wire \in MalformedUtf8)
                => (~decoded.ok /\ decoded.error = "Utf8Error")

C9_Witness ==
    /\ pc = "decoded_bytes"
    /\ wire = Utf8(<<"g", "i", "t", "l", "a", "b">>)
    /\ ~decoded.ok
    /\ decoded.error = "InvalidProvider"

\* Whether reading column c of the row fails: absent, unset or mistyped.
ReadFails(r, c) == c \notin DOMAIN r \/ r[c].type # TableColumns[c]

\* C10: when the read of any of the five columns fails the decoder returns
\* an error, and every field of a record it returns is what the row holds.
C10_FailedReadIsAnError ==
    pc \in {"deserialized", "borrowed"}
        => /\ (\E c \in DOMAIN TableColumns : ReadFails(row, c)) => ~loaded.ok
           /\ loaded.ok
                => /\ loaded.value.id = row.id.v
                   /\ loaded.value.username = row.username.v
                   /\ loaded.value.email = row.email.v
                   /\ loaded.value.registered_at.sec * 1000
                        + loaded.value.registered_at.nsec \div NanosPerMilli
                        = row.registered_at.v[1]

C10_Witness ==
    /\ pc = "deserialized"
    /\ "username" \notin DOMAIN row
    /\ ~loaded.ok
    /\ loaded.error = CDRSError("username")

\* Whether the row's password_hash column holds text with a character that
\* is no base-58 digit.
HoldsInvalidBase58(r) ==
    /\ ~ReadFails(r, "password_hash")
    /\ \E i \in 1..Len(r.password_hash.v) :
         \A d \in 1..Len(Base58Alphabet) : Base58Alphabet[d] # r.password_hash.v[i]

\* C11 as stated: a row whose password_hash text is not base 58 decodes to
\* DecodingError and to no OwnedUser.
C11_InvalidBase58IsDecodingError ==
    (pc = "deserialized" /\ HoldsInvalidBase58(row))
        => (~loaded.ok /\ loaded.error.kind = "DecodingError")

\* C11 as the code has it: such a row decodes to no OwnedUser; the error is
\* DecodingError when the id, username and email columns read, and the
\* CDRSError of the first of them that does not otherwise.
C11_InvalidBase58IsAnError ==
    (pc = "deserialized" /\ HoldsInvalidBase58(row))
        => /\ ~loaded.ok
           /\ (\A c \in {"id", "username", "email"} : ~ReadFails(row, c))
                => loaded.error.kind = "DecodingError"
           /\ (\E c \in {"id", "username", "email"} : ReadFails(row, c))
                => /\ loaded.error.kind = "CDRSError"
                   /\ ReadFails(row, loaded.error.column)
                   /\ loaded.error.column \in {"id", "username", "email"}

C11_Witness ==
    /\ pc = "deserialized"
    /\ HoldsInvalidBase58(row)
    /\ ReadFails(row, "registered_at")
    /\ ~loaded.ok
    /\ loaded.error.kind = "DecodingError"

\* C12: for every OwnedUser the decoder produces, User::from(&o) succeeds
\* and its result u has u == o and o == u, the two comparisons agreeing.
C12_ViewsInterchangeable ==
    pc = "borrowed"
        => /\ view.kind = "user"
           /\ UserEqOwned(view, loaded.value)
           /\ OwnedUserEq(loaded.value, view)
           /\ user.kind = "user"
                => UserEqOwned(user, loaded.value) = OwnedUserEq(loaded.value, user)
===========================================================================
